---- MODULE Spec2Model ----
(***************************************************************************)
(* Model of server_ultra.py: the detail-path resolver, the stream-link     *)
(* resolver with its two caches and its fallback fetch, the opaque URL     *)
(* codec and the streaming proxy.                                          *)
(*                                                                         *)
(* Strings are sequences of Unicode code points, byte strings sequences    *)
(* of 0..255.  Coroutines are cut at their await points: one action runs   *)
(* a handler from one await to the next, as the event loop does.           *)
(***************************************************************************)
EXTENDS Integers, Sequences, FiniteSets, TLC

VARIABLES
    detail_path_cache,    \* server_ultra.py:42
    stream_links_cache,   \* server_ultra.py:45
    global_api_session,   \* server_ultra.py:20
    global_proxy_client,  \* server_ultra.py:21
    now,                  \* time.time(), in seconds since the process started
    calls,                \* the in-flight get_cached_detail_path / get_stream_links_fast coroutines
    lastStream,           \* history: per id, what the last finished get_stream_links_fast returned
    lastPath,             \* history: per id, what the last finished get_cached_detail_path did
    proxy,                \* the stream_video request being served
    codec                 \* the codec round trip under test

vars == <<detail_path_cache, stream_links_cache, global_api_session, global_proxy_client,
          now, calls, lastStream, lastPath, proxy, codec>>

resolverVars == <<detail_path_cache, stream_links_cache, global_api_session, now, calls,
                  lastStream, lastPath>>
proxyVars == <<global_proxy_client, proxy>>

----------------------------------------------------------------------------
(* Bounds *)

MaxLen == 3        \* longest upstream URL the codec is tried on
MaxRefLen == 1     \* longest referer the codec is tried on
MaxTicks == 2      \* the clock is observed this many times after the start
TickStep == 900    \* seconds between two observations of the clock
MaxChunks == 2     \* chunks an upstream body has at most

----------------------------------------------------------------------------
(* Characters *)

\* the code points of the characters the model names
Chr == [slash |-> 47, question |-> 63, amp |-> 38, tilde |-> 126, a |-> 97, b |-> 98, c |-> 99,
        h |-> 104, m |-> 109, eacute |-> 233, pad |-> 61, plus |-> 43, minus |-> 45,
        underscore |-> 95, upperA |-> 65]
Slash == Chr.slash
Question == Chr.question
Amp == Chr.amp
Tilde == Chr.tilde
LowerA == Chr.a
EAcute == Chr.eacute      \* a two-byte character in UTF-8
PadChar == Chr.pad        \* '='
Plus == Chr.plus
Minus == Chr.minus
Underscore == Chr.underscore

Alphabet == {Slash, Question, Amp, Tilde, LowerA, EAcute}

RECURSIVE StrsUpTo(_)
StrsUpTo(n) ==
    IF n = 0 THEN {<<>>}
    ELSE LET shorter == StrsUpTo(n - 1)
         IN  shorter \cup {Append(s, ch) : s \in {t \in shorter : Len(t) = n - 1}, ch \in Alphabet}

Ok(v) == [ok |-> TRUE, val |-> v]
Err == [ok |-> FALSE, val |-> <<>>]

----------------------------------------------------------------------------
(* str.encode() and bytes.decode(): UTF-8 *)

Utf8Char(cp) ==
    IF cp < 128 THEN <<cp>>
    ELSE IF cp < 2048 THEN <<192 + (cp \div 64), 128 + (cp % 64)>>
    ELSE <<224 + (cp \div 4096), 128 + ((cp \div 64) % 64), 128 + (cp % 64)>>

RECURSIVE Utf8Encode(_)
Utf8Encode(s) ==
    IF s = <<>> THEN <<>> ELSE Utf8Char(Head(s)) \o Utf8Encode(Tail(s))

IsCont(b) == b >= 128 /\ b < 192

RECURSIVE Utf8DecodeFrom(_, _, _)
Utf8DecodeFrom(bs, i, out) ==
    IF i > Len(bs) THEN Ok(out)
    ELSE LET b == bs[i] IN
         IF b < 128 THEN Utf8DecodeFrom(bs, i + 1, Append(out, b))
         ELSE IF b >= 194 /\ b < 224 /\ i + 1 <= Len(bs) /\ IsCont(bs[i + 1])
              THEN Utf8DecodeFrom(bs, i + 2, Append(out, (b - 192) * 64 + (bs[i + 1] - 128)))
         ELSE IF b >= 224 /\ b < 240 /\ i + 2 <= Len(bs) /\ IsCont(bs[i + 1]) /\ IsCont(bs[i + 2])
                 /\ (b - 224) * 4096 + (bs[i + 1] - 128) * 64 >= 2048
              THEN Utf8DecodeFrom(bs, i + 3,
                       Append(out, (b - 224) * 4096 + (bs[i + 1] - 128) * 64 + (bs[i + 2] - 128)))
         ELSE Err

Utf8Decode(bs) == Utf8DecodeFrom(bs, 1, <<>>)

----------------------------------------------------------------------------
(* base64.urlsafe_b64encode / base64.urlsafe_b64decode *)

\* the standard alphabet: A-Z a-z 0-9 + /
StdB64Char(i) ==
    IF i < 26 THEN 65 + i
    ELSE IF i < 52 THEN 97 + (i - 26)
    ELSE IF i < 62 THEN 48 + (i - 52)
    ELSE IF i = 62 THEN Plus
    ELSE Slash

\* binascii's decoding table: 64 and above is "not in the alphabet"
StdB64Val(c) ==
    IF c >= 65 /\ c <= 90 THEN c - 65
    ELSE IF c >= 97 /\ c <= 122 THEN c - 97 + 26
    ELSE IF c >= 48 /\ c <= 57 THEN c - 48 + 52
    ELSE IF c = Plus THEN 62
    ELSE IF c = Slash THEN 63
    ELSE 64

RECURSIVE B2A(_)
B2A(bs) ==
    IF Len(bs) = 0 THEN <<>>
    ELSE IF Len(bs) = 1 THEN
        <<StdB64Char(bs[1] \div 4), StdB64Char((bs[1] % 4) * 16), PadChar, PadChar>>
    ELSE IF Len(bs) = 2 THEN
        <<StdB64Char(bs[1] \div 4), StdB64Char((bs[1] % 4) * 16 + (bs[2] \div 16)),
          StdB64Char((bs[2] % 16) * 4), PadChar>>
    ELSE
        <<StdB64Char(bs[1] \div 4), StdB64Char((bs[1] % 4) * 16 + (bs[2] \div 16)),
          StdB64Char((bs[2] % 16) * 4 + (bs[3] \div 64)), StdB64Char(bs[3] % 64)>>
        \o B2A(SubSeq(bs, 4, Len(bs)))

\* bytes.translate: '+' -> '-', '/' -> '_'
UrlsafeEncodeTranslate(cs) ==
    [i \in 1..Len(cs) |-> IF cs[i] = Plus THEN Minus ELSE IF cs[i] = Slash THEN Underscore ELSE cs[i]]

\* bytes.translate: '-' -> '+', '_' -> '/'
UrlsafeDecodeTranslate(cs) ==
    [i \in 1..Len(cs) |-> IF cs[i] = Minus THEN Plus ELSE IF cs[i] = Underscore THEN Slash ELSE cs[i]]

\* binascii.a2b_base64, not strict: characters outside the alphabet are skipped,
\* a group left open at the end is an error
RECURSIVE A2BFrom(_, _, _, _, _, _)
A2BFrom(cs, i, quad, left, pads, out) ==
    IF i > Len(cs) THEN (IF quad # 0 THEN Err ELSE Ok(out))
    ELSE LET c == cs[i]
             v == StdB64Val(c)
         IN  IF c = PadChar THEN
                 IF quad >= 2 /\ quad + pads + 1 >= 4 THEN Ok(out)
                 ELSE A2BFrom(cs, i + 1, quad, left, IF quad >= 2 THEN pads + 1 ELSE pads, out)
             ELSE IF v >= 64 THEN A2BFrom(cs, i + 1, quad, left, pads, out)
             ELSE IF quad = 0 THEN A2BFrom(cs, i + 1, 1, v, 0, out)
             ELSE IF quad = 1 THEN
                 A2BFrom(cs, i + 1, 2, v % 16, 0, Append(out, left * 4 + (v \div 16)))
             ELSE IF quad = 2 THEN
                 A2BFrom(cs, i + 1, 3, v % 4, 0, Append(out, left * 16 + (v \div 4)))
             ELSE A2BFrom(cs, i + 1, 0, 0, 0, Append(out, left * 64 + v))

A2B(cs) == A2BFrom(cs, 1, 0, 0, 0, <<>>)

urlsafe_b64encode(bs) == UrlsafeEncodeTranslate(B2A(bs))
urlsafe_b64decode(cs) == A2B(UrlsafeDecodeTranslate(cs))

\* the same, with the padding dropped
b64_encode_unpadded(s) ==
    SelectSeq(urlsafe_b64encode(Utf8Encode(s)), LAMBDA c : c # PadChar)

\* def b64_encode(s): base64.urlsafe_b64encode(s.encode()).decode()
b64_encode(s) == Utf8Decode(urlsafe_b64encode(Utf8Encode(s))).val

\* def b64_decode(s): base64.urlsafe_b64decode(s.encode()).decode()
\* Err stands for the exception either step raises
b64_decode(s) ==
    LET bytes == urlsafe_b64decode(Utf8Encode(s))
    IN  IF bytes.ok THEN Utf8Decode(bytes.val) ELSE Err

----------------------------------------------------------------------------
(* The data the resolver works on *)

Ids == {"x1"}                  \* subject ids
Calls == {"c1", "c2"}          \* coroutines that can be in flight together
CallOrder == [c \in Calls |-> IF c = "c1" THEN 1 ELSE 2]

STREAM_CACHE_TTL == 1800       \* server_ultra.py:46

PathA == <<LowerA>>
PathB == <<Chr.b>>
Unknown == <<117, 110, 107, 110, 111, 119, 110>>    \* 'unknown'
Paths == {PathA, PathB}

\* detail_path arguments a caller passes: None and '' are the same to `if not detail_path`
NoPath == <<>>
PathArgs == {NoPath, PathA, PathB}

\* get_absolute_url (moviebox_api.helpers): the host, then the relative URL
Host == <<Chr.h>>
MoviesPrefix == <<Slash, Chr.m, Slash>>
get_absolute_url(rel) == Host \o rel
RefererOf(detail_path) == get_absolute_url(MoviesPrefix \o detail_path)

UrlA == <<Chr.c, Slash, LowerA>>
UrlB == <<Chr.c, Question, Chr.b>>
UrlC == <<Chr.c, Amp, Tilde>>
UpstreamUrls == {UrlA, UrlB, UrlC}

MiB == 1048576

Item(u, res, n) == [url |-> u, resolution |-> res, size |-> [num |-> TRUE, n |-> n]]

\* the download lists the backend answers with
DlEmpty == <<>>
DlMixed == <<Item(UrlA, 480, MiB), Item(UrlB, 1080, 3 * MiB), Item(UrlC, 720, 2 * MiB)>>
DlTies == <<Item(UrlA, 720, MiB), Item(UrlB, 1080, 0), Item(UrlC, 720, MiB)>>
DlNoUrl == <<Item(UrlA, 720, MiB), [resolution |-> 480, size |-> [num |-> TRUE, n |-> 0]]>>
DlNoResolution == <<[url |-> UrlA, size |-> [num |-> TRUE, n |-> 0]]>>
DlBadSize == <<[url |-> UrlA, resolution |-> 720, size |-> [num |-> FALSE, n |-> 0]]>>
DownloadLists == {DlEmpty, DlMixed, DlTies, DlNoUrl, DlNoResolution, DlBadSize}

\* what the detail endpoint answers: 200 with a detailPath, 200 without the field,
\* another status, or no answer at all (the request raises)
DetailResponses ==
    {[kind |-> "ok", path |-> p] : p \in Paths}
    \cup {[kind |-> k, path |-> <<>>] : k \in {"nofield", "non200", "raise"}}

\* what session.get_with_cookies_from_api does: returns the data, or raises
PrimaryResponses ==
    {[kind |-> "ok", downloads |-> d] : d \in DownloadLists}
    \cup {[kind |-> "raise", downloads |-> <<>>]}

\* what the fresh client's GET does: 200 with data, another status, or raises
SecondaryResponses ==
    {[kind |-> "ok", downloads |-> d] : d \in DownloadLists}
    \cup {[kind |-> k, downloads |-> <<>>] : k \in {"non200", "raise"}}

\* dict[key] = value
Put(d, k, v) == [y \in DOMAIN d \cup {k} |-> IF y = k THEN v ELSE d[y]]

----------------------------------------------------------------------------
(* Parsing and ordering the download list: server_ultra.py:184-204 *)

\* round(size_bytes / (1024*1024), 1), in tenths of a megabyte, ties to even
SizeMbTenths(n) ==
    LET q == (n * 10) \div MiB
        r == (n * 10) % MiB
    IN  IF 2 * r > MiB \/ (2 * r = MiB /\ q % 2 = 1) THEN q + 1 ELSE q

\* the exception the loop body raises on this item, "" if none
ItemError(item) ==
    IF "url" \notin DOMAIN item THEN "KeyError: 'url'"
    ELSE IF "size" \in DOMAIN item /\ ~item.size.num THEN "ValueError: invalid literal for int()"
    ELSE IF "resolution" \notin DOMAIN item THEN "KeyError: 'resolution'"
    ELSE ""

Quality(item, referer_url) ==
    [quality |-> item.resolution,
     label |-> <<item.resolution, "p">>,
     size_mb |-> SizeMbTenths(IF "size" \in DOMAIN item THEN item.size.n ELSE 0),
     direct_url |-> item.url,
     proxy_url |-> <<"stream", b64_encode(item.url), b64_encode(referer_url),
                     <<"video_", item.resolution, "p.mp4">>>>]

\* qualities.sort(key=..., reverse=True) that puts a later equal element first
SortQualitiesTiesReversed(qs) ==
    LET RECURSIVE Ins(_, _)
        Ins(done, i) ==
            IF i > Len(qs) THEN done
            ELSE LET k == Cardinality({j \in 1..Len(done) : done[j].quality > qs[i].quality})
                 IN  Ins(SubSeq(done, 1, k) \o <<qs[i]>> \o SubSeq(done, k + 1, Len(done)), i + 1)
    IN  Ins(<<>>, 1)

\* qualities.sort(key=lambda x: x['quality'], reverse=True): list.sort is stable,
\* and with reverse=True equal elements still keep their order
SortQualities(qs) ==
    LET RECURSIVE Ins(_, _)
        Ins(done, i) ==
            IF i > Len(qs) THEN done
            ELSE LET k == Cardinality({j \in 1..Len(done) : done[j].quality >= qs[i].quality})
                 IN  Ins(SubSeq(done, 1, k) \o <<qs[i]>> \o SubSeq(done, k + 1, Len(done)), i + 1)
    IN  Ins(<<>>, 1)

\* the first exception of the loop over downloads, "" if it runs through
ParseError(downloads) ==
    LET bad == {i \in 1..Len(downloads) : ItemError(downloads[i]) # ""}
    IN  IF bad = {} THEN ""
        ELSE ItemError(downloads[CHOOSE i \in bad : \A j \in bad : i <= j])

ParseQualities(downloads, referer_url) ==
    SortQualities([i \in 1..Len(downloads) |-> Quality(downloads[i], referer_url)])

----------------------------------------------------------------------------
(* Coroutine frames *)

NoResult == [kind |-> "none"]

\* a frame that is not running
IdleCall ==
    [pc |-> "idle", op |-> "none", id |-> "x1", arg |-> NoPath, current_time |-> 0,
     detail_path |-> <<>>, referer_url |-> <<>>, err |-> "", proxy_err |-> "",
     reqs |-> <<>>, downloads |-> <<>>, result |-> NoResult, solo |-> TRUE]

\* a coroutine that has computed its result returns it before the event loop runs
\* anything else: there is no await between the last step and the return
Quiet == \A c \in Calls : calls[c].pc # "done"

\* a new call takes the first frame that is not running
Free(c) ==
    /\ Quiet
    /\ calls[c].pc = "idle"
    /\ \A d \in Calls : calls[d].pc = "idle" => CallOrder[c] <= CallOrder[d]
InFlight(d) == calls[d].pc \in {"detail", "primary", "secondary"}

\* the requests a frame sends: line 67, lines 143-145
DetailRequest(x) == [kind |-> "detail", subjectId |-> x]
PrimaryRequest(x, referer_url) ==
    [kind |-> "primary", subjectId |-> x, Referer |-> referer_url,
     UserAgent |-> "iPhone", cookies |-> TRUE]
\* the fresh client's request with a Referer of its own
SecondaryRequestOwnReferer(x, referer_url) ==
    [kind |-> "secondary", subjectId |-> x, Referer |-> get_absolute_url(MoviesPrefix),
     UserAgent |-> "Windows", cookies |-> FALSE]

\* lines 163-168
SecondaryRequest(x, referer_url) ==
    [kind |-> "secondary", subjectId |-> x, Referer |-> referer_url,
     UserAgent |-> "Windows", cookies |-> FALSE]

\* server_ultra.py:113-168 up to the first await: build the Referer, then the session's
\* request, or without a session the exception and the fresh client's request
BeginFetch(f, detail_path) ==
    LET referer_url == RefererOf(detail_path)
        g == [f EXCEPT !.detail_path = detail_path, !.referer_url = referer_url]
    IN  IF global_api_session
        THEN [g EXCEPT !.pc = "primary",
                       !.reqs = Append(@, PrimaryRequest(f.id, referer_url))]
        ELSE [g EXCEPT !.pc = "secondary", !.err = "No active session",
                       !.reqs = Append(@, SecondaryRequest(f.id, referer_url))]

\* the other frames, told that a resolution for x overlaps them
Overlapped(d, x) ==
    IF InFlight(d) /\ calls[d].op = "stream" /\ calls[d].id = x
    THEN [calls[d] EXCEPT !.solo = FALSE] ELSE calls[d]

\* the frame of a call that starts now
NewCall(op, x, arg) ==
    [IdleCall EXCEPT !.op = op, !.id = x, !.arg = arg, !.current_time = now,
                     !.solo = ~\E d \in Calls :
                                  InFlight(d) /\ calls[d].op = "stream" /\ calls[d].id = x]

PathRecord(kind, fetches) == [kind |-> kind, fetches |-> fetches]

StreamRecord(f, result) ==
    [kind |-> IF ~result.success THEN "fail"
              ELSE IF result.qualities = <<>> THEN "empty" ELSE "nonempty",
     qualities |-> IF result.success THEN result.qualities ELSE <<>>,
     solo |-> f.solo]

----------------------------------------------------------------------------
(* get_cached_detail_path: server_ultra.py:48-79 *)

\* a direct call; a cache hit returns at once, a miss sends the detail request
PathStart(c, x) ==
    /\ Free(c)
    /\ LET f == NewCall("path", x, NoPath) IN
       IF x \in DOMAIN detail_path_cache
       THEN /\ calls' = [calls EXCEPT ![c] =
                           [f EXCEPT !.pc = "done",
                                     !.result = [kind |-> "path", path |-> detail_path_cache[x]]]]
            /\ lastPath' = [lastPath EXCEPT ![x] = PathRecord("ok", 0)]
       ELSE /\ calls' = [calls EXCEPT ![c] =
                           [f EXCEPT !.pc = "detail", !.reqs = <<DetailRequest(x)>>]]
            /\ UNCHANGED lastPath
    /\ UNCHANGED <<detail_path_cache, stream_links_cache, global_api_session, now, lastStream>>
    /\ UNCHANGED <<proxyVars, codec>>

\* what the function returns on this answer
DetailPathOf(resp) == IF resp.kind = "ok" THEN resp.path ELSE Unknown

\* the assignment of line 71 moved out of the `if`: every answer is stored
DetailStoredAlways(resp) == TRUE

\* the condition of line 68 turned round
DetailStoredInverted(resp) == resp.kind \notin {"ok", "nofield"}

\* whether the answer is stored: the status is 200 and .json() and the .get chain went through
DetailStored(resp) == resp.kind \in {"ok", "nofield"}

\* the answer of the detail endpoint arrives (the await of line 67 ends)
DetailResponse(c, resp) ==
    /\ Quiet
    /\ calls[c].pc = "detail"
    /\ LET f == calls[c]
           path == DetailPathOf(resp)
       IN  /\ detail_path_cache' =
                  IF DetailStored(resp) THEN Put(detail_path_cache, f.id, path)
                  ELSE detail_path_cache
           /\ lastPath' = [lastPath EXCEPT ![f.id] =
                  PathRecord(IF resp.kind \in {"ok", "nofield"} THEN "ok" ELSE "fail", 1)]
           /\ calls' = [calls EXCEPT ![c] =
                  IF f.op = "path"
                  THEN [f EXCEPT !.pc = "done", !.result = [kind |-> "path", path |-> path]]
                  ELSE BeginFetch(f, path)]
    /\ UNCHANGED <<stream_links_cache, global_api_session, now, lastStream>>
    /\ UNCHANGED <<proxyVars, codec>>

----------------------------------------------------------------------------
(* get_stream_links_fast: server_ultra.py:82-226 *)

\* the cache check with the comparison turned round
CacheValidInverted(x, t) ==
    /\ x \in DOMAIN stream_links_cache
    /\ t - stream_links_cache[x].timestamp > STREAM_CACHE_TTL

\* the cache check with <= for <
CacheValidInclusive(x, t) ==
    /\ x \in DOMAIN stream_links_cache
    /\ t - stream_links_cache[x].timestamp <= STREAM_CACHE_TTL

\* lines 98-100
CacheValid(x, t) ==
    /\ x \in DOMAIN stream_links_cache
    /\ t - stream_links_cache[x].timestamp < STREAM_CACHE_TTL


HitResult(x) ==
    [success |-> TRUE, qualities |-> stream_links_cache[x].data, cached |-> TRUE, timing_ms |-> 0]

\* the else branch left out: the supplied path is used and not stored
StoreSuppliedNowhere(x, arg) == detail_path_cache

\* line 111: detail_path_cache[subject_id] = detail_path
StoreSupplied(x, arg) == Put(detail_path_cache, x, arg)

\* the supplied path stored before the cache is looked at
PathCacheOnHitStored(x, arg) ==
    IF arg # NoPath THEN Put(detail_path_cache, x, arg) ELSE detail_path_cache

\* lines 98-102: the hit returns before line 111 is reached
PathCacheOnHit(x, arg) == detail_path_cache

\* lines 95-134: the cache check, then the detail path, then the first request
StreamStart(c, x, arg) ==
    /\ Free(c)
    /\ LET f == NewCall("stream", x, arg)
           others == [d \in Calls |-> Overlapped(d, x)]
       IN  IF CacheValid(x, now)
           THEN /\ calls' = [calls EXCEPT ![c] = [f EXCEPT !.pc = "done", !.result = HitResult(x)]]
                /\ lastStream' = [lastStream EXCEPT ![x] = StreamRecord(f, HitResult(x))]
                /\ detail_path_cache' = PathCacheOnHit(x, arg)
                /\ UNCHANGED lastPath
           ELSE IF arg # NoPath
           THEN /\ detail_path_cache' = StoreSupplied(x, arg)
                /\ calls' = [others EXCEPT ![c] = BeginFetch(f, arg)]
                /\ UNCHANGED <<lastStream, lastPath>>
           ELSE IF x \in DOMAIN detail_path_cache
           THEN /\ calls' = [others EXCEPT ![c] = BeginFetch(f, detail_path_cache[x])]
                /\ lastPath' = [lastPath EXCEPT ![x] = PathRecord("ok", 0)]
                /\ UNCHANGED <<detail_path_cache, lastStream>>
           ELSE /\ calls' = [others EXCEPT ![c] =
                               [f EXCEPT !.pc = "detail", !.reqs = <<DetailRequest(x)>>]]
                /\ UNCHANGED <<detail_path_cache, lastStream, lastPath>>
    /\ UNCHANGED <<stream_links_cache, global_api_session, now>>
    /\ UNCHANGED <<proxyVars, codec>>

ElapsedMs(f) == (now - f.current_time) * 1000

\* lines 223-226
Failure(f, error) == [success |-> FALSE, error |-> error, timing_ms |-> ElapsedMs(f)]

\* lines 216-221
Success(f, qualities) ==
    [success |-> TRUE, qualities |-> qualities, cached |-> FALSE, timing_ms |-> ElapsedMs(f)]

\* a loop body that skips an item it cannot read instead of raising
ResolvedSkippingBadItems(f, downloads) ==
    LET Good(item) == ItemError(item) = ""
    IN  Success(f, ParseQualities(SelectSeq(downloads, Good), f.referer_url))

\* the result of lines 180-226 on the data a fetch returned
Resolved(f, downloads) ==
    IF ParseError(downloads) # "" THEN Failure(f, ParseError(downloads))
    ELSE Success(f, ParseQualities(downloads, f.referer_url))

\* `if qualities:` that stores every successful result
ShouldCacheAlways(result) == result.success

\* line 207, `if qualities:`, reached only when nothing was raised
ShouldCache(result) == result.success /\ result.qualities # <<>>

\* stream_links_cache.setdefault(subject_id, ...): an entry that is there is kept
CacheEntryKeepExisting(f, result) ==
    IF f.id \in DOMAIN stream_links_cache THEN stream_links_cache[f.id]
    ELSE [data |-> result.qualities, timestamp |-> f.current_time]

\* an entry that is there updated in place: the list replaced, the timestamp kept
CacheEntryInPlace(f, result) ==
    [data |-> result.qualities,
     timestamp |-> IF f.id \in DOMAIN stream_links_cache
                   THEN stream_links_cache[f.id].timestamp ELSE f.current_time]

\* lines 208-211: the list and the time read at line 95
CacheEntry(f, result) == [data |-> result.qualities, timestamp |-> f.current_time]

\* an except branch that stores an empty entry for the id it failed on
CacheAfterFailureStored(f, result) ==
    IF result.success
    THEN (IF ShouldCache(result) THEN Put(stream_links_cache, f.id, CacheEntry(f, result))
          ELSE stream_links_cache)
    ELSE Put(stream_links_cache, f.id, [data |-> <<>>, timestamp |-> f.current_time])

\* stream_links_cache after the call has ended with result: written at lines 207-211,
\* left alone by the except branch of lines 223-226
CacheAfter(f, result) ==
    IF ShouldCache(result) THEN Put(stream_links_cache, f.id, CacheEntry(f, result))
    ELSE stream_links_cache

\* lines 180-226: parse, sort, store, return; no await in between
Finish(c, downloads) ==
    LET f == [calls[c] EXCEPT !.downloads = downloads]
        result == Resolved(f, downloads)
    IN  /\ stream_links_cache' = CacheAfter(f, result)
        /\ calls' = [calls EXCEPT ![c] = [f EXCEPT !.pc = "done", !.result = result]]
        /\ lastStream' = [lastStream EXCEPT ![f.id] = StreamRecord(f, result)]

\* the await of lines 143-145 ends: data, or an exception and then the fresh client's request
PrimaryResponse(c, resp) ==
    /\ Quiet
    /\ calls[c].pc = "primary"
    /\ IF resp.kind = "ok"
       THEN Finish(c, resp.downloads)
       ELSE /\ calls' = [calls EXCEPT ![c] =
                   [calls[c] EXCEPT !.pc = "secondary", !.err = "primary fetch failed",
                       !.reqs = Append(@, SecondaryRequest(calls[c].id, calls[c].referer_url))]]
            /\ UNCHANGED <<stream_links_cache, lastStream>>
    /\ UNCHANGED <<detail_path_cache, global_api_session, now, lastPath>>
    /\ UNCHANGED <<proxyVars, codec>>

\* `raise proxy_err`: the fallback's own exception
ReraisedProxyErr(f) == f.proxy_err

\* line 177, `raise e`: the exception of the primary attempt, bound at line 148
Reraised(f) == f.err

\* the await of line 168 ends: 200 and data, or `raise e` with the first exception
SecondaryResponse(c, resp) ==
    /\ Quiet
    /\ calls[c].pc = "secondary"
    /\ IF resp.kind = "ok"
       THEN Finish(c, resp.downloads)
       ELSE LET f == [calls[c] EXCEPT !.proxy_err =
                         IF resp.kind = "non200" THEN "Proxy attempt failed" ELSE "proxy fetch failed"]
                result == Failure(f, Reraised(f))
            IN  /\ calls' = [calls EXCEPT ![c] = [f EXCEPT !.pc = "done", !.result = result]]
                /\ lastStream' = [lastStream EXCEPT ![f.id] = StreamRecord(f, result)]
                /\ stream_links_cache' = CacheAfter(f, result)
    /\ UNCHANGED <<detail_path_cache, global_api_session, now, lastPath>>
    /\ UNCHANGED <<proxyVars, codec>>

\* the caller has the result; the frame is gone
Return(c) ==
    /\ calls[c].pc = "done"
    /\ calls' = [calls EXCEPT ![c] = IdleCall]
    /\ UNCHANGED <<detail_path_cache, stream_links_cache, global_api_session, now,
                   lastStream, lastPath>>
    /\ UNCHANGED <<proxyVars, codec>>

----------------------------------------------------------------------------
(* The rest of the process *)

\* lifespan, startup half: server_ultra.py:229-252
LifespanStartup ==
    /\ Quiet
    /\ ~global_api_session
    /\ global_api_session' = TRUE
    /\ global_proxy_client' = TRUE
    /\ UNCHANGED <<detail_path_cache, stream_links_cache, now, calls, lastStream, lastPath>>
    /\ UNCHANGED <<proxy, codec>>

\* api_home, api_search, api_recommendations: every listed subject with a detailPath
\* is stored, server_ultra.py:349-358, 526-534, 596-600
SeedDetailPaths(items) ==
    /\ Quiet
    /\ detail_path_cache' =
           [y \in DOMAIN detail_path_cache \cup DOMAIN items |->
               IF y \in DOMAIN items THEN items[y] ELSE detail_path_cache[y]]
    /\ UNCHANGED <<stream_links_cache, global_api_session, now, calls, lastStream, lastPath>>
    /\ UNCHANGED <<proxyVars, codec>>

SeedLists == UNION {[S -> Paths] : S \in (SUBSET Ids) \ {{}}}

\* time passes
Tick ==
    /\ Quiet
    /\ now + TickStep <= MaxTicks * TickStep
    /\ now' = now + TickStep
    /\ UNCHANGED <<detail_path_cache, stream_links_cache, global_api_session, calls,
                   lastStream, lastPath>>
    /\ UNCHANGED <<proxyVars, codec>>

----------------------------------------------------------------------------
(* stream_video: server_ultra.py:770-823 *)

\* header dictionaries are functions from the names present to their values
NoHeaders == <<>>

\* DOWNLOAD_REQUEST_HEADERS (moviebox_api.constants): fixed headers, no Range among them
DOWNLOAD_REQUEST_HEADERS ==
    [Accept |-> "*/*", UserAgent |-> "Firefox", Referer |-> "download-referer"]

\* Python truthiness of headers.get(name): the header is there and its value is not ''
Truthy(headers, name) == name \in DOMAIN headers /\ headers[name] # ""

RangeValues == {"", "bytes=100-199"}
InboundHeaders == {NoHeaders} \cup {[Range |-> v] : v \in RangeValues}

\* what upstream answers with
UpstreamStatuses == {200, 206, 403}
UpstreamHeaderSets ==
    {NoHeaders}
    \cup {[ContentLength |-> "100"], [ContentRange |-> ""]}
    \cup {[ContentLength |-> l, ContentRange |-> r] :
             l \in {"", "100"}, r \in {"bytes 100-199/1000"}}
    \cup {[ContentType |-> "application/octet-stream", ContentLength |-> "100"]}

\* tokens a client puts in the path: the resolver's, one that is not base64,
\* one that is base64 of bytes that are not UTF-8
BadBase64 == <<Chr.upperA>>
NotUtf8 == urlsafe_b64encode(<<255>>)
UrlTokens == {b64_encode(UrlA), b64_encode(UrlB), BadBase64, NotUtf8}
RefererTokens == {b64_encode(RefererOf(PathA)), b64_encode(RefererOf(PathB)), BadBase64}
Filenames == {"video_720p.mp4", "other.mp4"}

IdleProxy ==
    [pc |-> "idle", b64_url |-> <<>>, b64_referer |-> <<>>, filename |-> "",
     inbound |-> NoHeaders, client |-> "none", client_open |-> FALSE,
     req |-> [kind |-> "none"], r |-> [kind |-> "none"], r_open |-> FALSE,
     remaining |-> 0, delivered |-> 0, response |-> [kind |-> "none"],
     ended |-> "no", escaped |-> "none"]

\* lines 779-785: the library's headers, plus the inbound Range if it is truthy
UpstreamRequestHeaders(inbound) ==
    IF Truthy(inbound, "Range")
    THEN Put(DOWNLOAD_REQUEST_HEADERS, "Range", inbound["Range"])
    ELSE DOWNLOAD_REQUEST_HEADERS

\* lines 809-817
ResponseHeaders(r) ==
    LET base == [ContentType |-> "video/mp4", AcceptRanges |-> "bytes",
                 CacheControl |-> "no-cache"]
        withLength == IF Truthy(r.headers, "ContentLength")
                      THEN Put(base, "ContentLength", r.headers["ContentLength"]) ELSE base
    IN  IF Truthy(r.headers, "ContentRange")
        THEN Put(withLength, "ContentRange", r.headers["ContentRange"]) ELSE withLength

\* a StreamingResponse built without status_code: it answers 200
StreamingResponseDefaultStatus(r) ==
    [kind |-> "streaming", status_code |-> 200, headers |-> ResponseHeaders(r)]

\* lines 819-823
StreamingResponse(r) ==
    [kind |-> "streaming", status_code |-> r.status_code, headers |-> ResponseHeaders(r)]

\* build_request that forwards no Range
BuildRequestNoRange(real_url, inbound) ==
    [kind |-> "GET", url |-> real_url, headers |-> DOWNLOAD_REQUEST_HEADERS]

\* line 793
BuildRequest(real_url, inbound) ==
    [kind |-> "GET", url |-> real_url, headers |-> UpstreamRequestHeaders(inbound)]

\* a proxy that decodes the referer segment too and sends it as the Referer
UpstreamRequestWithReferer(b64_url, b64_referer, filename, inbound) ==
    LET req == BuildRequest(b64_decode(b64_url).val, inbound)
        referer == b64_decode(b64_referer)
    IN  IF referer.ok THEN [req EXCEPT !.headers = Put(@, "Referer", "token-referer")] ELSE req

\* lines 776-793: the request made for a path whose first segment decodes; the
\* parameters b64_referer and filename are not read
UpstreamRequestOf(b64_url, b64_referer, filename, inbound) ==
    BuildRequest(b64_decode(b64_url).val, inbound)

\* lines 776-795 up to the await of client.send; b64_decode may raise, and then
\* nothing has been created yet
ProxyStart(b64_url, b64_referer, filename, inbound) ==
    /\ proxy.pc = "idle"
    /\ LET real_url == b64_decode(b64_url)
           p == [IdleProxy EXCEPT !.b64_url = b64_url, !.b64_referer = b64_referer,
                                  !.filename = filename, !.inbound = inbound]
       IN  proxy' =
             IF ~real_url.ok
             THEN [p EXCEPT !.pc = "raised", !.escaped = "decode error"]
             ELSE [p EXCEPT !.pc = "sending",
                            !.client = IF global_proxy_client THEN "global" ELSE "throwaway",
                            !.client_open = ~global_proxy_client,
                            !.req = UpstreamRequestOf(b64_url, b64_referer, filename, inbound)]
    /\ UNCHANGED <<resolverVars, global_proxy_client, codec>>

\* the await of line 795 ends with an exception: it leaves stream_video
SendRaises ==
    /\ proxy.pc = "sending"
    /\ proxy' = [proxy EXCEPT !.pc = "raised", !.escaped = "send error"]
    /\ UNCHANGED <<resolverVars, global_proxy_client, codec>>

\* the await of line 795 ends with the response head: the connection is open, the
\* generator object is made (not started) and the StreamingResponse is returned
SendReturns(status, headers, chunks) ==
    /\ proxy.pc = "sending"
    /\ LET r == [kind |-> "response", status_code |-> status, headers |-> headers]
       IN  proxy' = [proxy EXCEPT !.pc = "returned", !.r = r, !.r_open = TRUE,
                                  !.remaining = chunks, !.response = StreamingResponse(r)]
    /\ UNCHANGED <<resolverVars, global_proxy_client, codec>>

\* the server asks the generator for the next chunk: iter_file runs up to the
\* await inside r.aiter_bytes
BodyNext ==
    /\ proxy.pc \in {"returned", "yielded"}
    /\ proxy' = [proxy EXCEPT !.pc = "reading"]
    /\ UNCHANGED <<resolverVars, global_proxy_client, codec>>

\* upstream delivers a chunk: line 802 yields it
UpstreamChunk ==
    /\ proxy.pc = "reading"
    /\ proxy.remaining > 0
    /\ proxy' = [proxy EXCEPT !.pc = "yielded", !.remaining = @ - 1, !.delivered = @ + 1]
    /\ UNCHANGED <<resolverVars, global_proxy_client, codec>>

\* upstream ends the body: the loop ends, finally closes r
UpstreamEof ==
    /\ proxy.pc = "reading"
    /\ proxy.remaining = 0
    /\ proxy' = [proxy EXCEPT !.pc = "over", !.r_open = FALSE, !.ended = "eof"]
    /\ UNCHANGED <<resolverVars, global_proxy_client, codec>>

\* the read raises an httpx error, an Exception: line 803 swallows it, finally closes r
UpstreamError ==
    /\ proxy.pc = "reading"
    /\ proxy' = [proxy EXCEPT !.pc = "over", !.r_open = FALSE, !.ended = "upstream error"]
    /\ UNCHANGED <<resolverVars, global_proxy_client, codec>>

\* the client goes away while iter_file waits for upstream: the server cancels the
\* task, CancelledError is raised at the await.  It is a BaseException, so line 803
\* does not catch it; finally closes r and the exception leaves iter_file
CancelledWhileReading ==
    /\ proxy.pc = "reading"
    /\ proxy' = [proxy EXCEPT !.pc = "over", !.r_open = FALSE, !.ended = "disconnect",
                              !.escaped = "CancelledError"]
    /\ UNCHANGED <<resolverVars, global_proxy_client, codec>>

\* the client goes away while iter_file is suspended at the yield: the generator is
\* closed (aclose, at once or by the loop's finalizer), GeneratorExit is raised at
\* line 802, finally closes r, and aclose swallows the GeneratorExit
ClosedAtYield ==
    /\ proxy.pc = "yielded"
    /\ proxy' = [proxy EXCEPT !.pc = "over", !.r_open = FALSE, !.ended = "disconnect"]
    /\ UNCHANGED <<resolverVars, global_proxy_client, codec>>

\* the response is dropped before its body is iterated (the client is gone before
\* the server starts the body): a generator that never ran has no finally to run
NeverStarted ==
    /\ proxy.pc = "returned"
    /\ proxy' = [proxy EXCEPT !.pc = "over", !.ended = "never started"]
    /\ UNCHANGED <<resolverVars, global_proxy_client, codec>>

\* the request is over: the next one starts from scratch
ProxyDone ==
    /\ proxy.pc \in {"over", "raised"}
    /\ proxy' = IdleProxy
    /\ UNCHANGED <<resolverVars, global_proxy_client, codec>>

\* lifespan's startup, seen from the proxy
ProxyLifespanStartup ==
    /\ ~global_proxy_client
    /\ proxy.pc = "idle"
    /\ global_proxy_client' = TRUE
    /\ global_api_session' = TRUE
    /\ UNCHANGED <<detail_path_cache, stream_links_cache, now, calls, lastStream, lastPath>>
    /\ UNCHANGED <<proxy, codec>>

----------------------------------------------------------------------------
(* The codec on its own *)

IdleCodec == [pc |-> "idle", u |-> <<>>, r |-> <<>>, token |-> <<>>, out |-> <<>>]

\* lines 189-190: the two segments of the token
CodecEncode ==
    /\ codec.pc = "input"
    /\ codec' = [codec EXCEPT !.pc = "encoded",
                              !.token = <<b64_encode(codec.u), b64_encode(codec.r)>>]
    /\ UNCHANGED <<resolverVars, proxyVars>>

\* line 776, applied to both segments
CodecDecode ==
    /\ codec.pc = "encoded"
    /\ codec' = [codec EXCEPT !.pc = "decoded",
                              !.out = <<b64_decode(codec.token[1]), b64_decode(codec.token[2])>>]
    /\ UNCHANGED <<resolverVars, proxyVars>>

----------------------------------------------------------------------------
(* Specifications *)

InitResolver ==
    /\ detail_path_cache = <<>>
    /\ stream_links_cache = <<>>
    /\ global_api_session = FALSE
    /\ now = 0
    /\ calls = [c \in Calls |-> IdleCall]
    /\ lastStream = [x \in Ids |-> NoResult]
    /\ lastPath = [x \in Ids |-> NoResult]

InitProxy ==
    /\ global_proxy_client = FALSE
    /\ proxy = IdleProxy

Init == InitResolver /\ InitProxy /\ codec = IdleCodec

\* no resolution is under way
Alone == \A c \in Calls : calls[c].pc = "idle"

\* one resolution at a time, in every environment
Next ==
    \/ \E c \in Calls, x \in Ids : Alone /\ PathStart(c, x)
    \/ \E c \in Calls, resp \in DetailResponses : DetailResponse(c, resp)
    \/ \E c \in Calls, x \in Ids, arg \in PathArgs : Alone /\ StreamStart(c, x, arg)
    \/ \E c \in Calls, resp \in PrimaryResponses : PrimaryResponse(c, resp)
    \/ \E c \in Calls, resp \in SecondaryResponses : SecondaryResponse(c, resp)
    \/ \E c \in Calls : Return(c)
    \/ \E items \in SeedLists : SeedDetailPaths(items)
    \/ LifespanStartup
    \/ Tick

Spec == Init /\ [][Next]_vars

\* the answers the backend gives while resolutions overlap
ConcDetailResponses == {r \in DetailResponses : r.kind = "raise" \/ r.path = PathA}
ConcDownloadLists == {DlEmpty, DlTies}
ConcPrimaryResponses ==
    {r \in PrimaryResponses : r.kind = "raise" \/ r.downloads \in ConcDownloadLists}
ConcSecondaryResponses ==
    {r \in SecondaryResponses : r.kind = "non200" \/ (r.kind = "ok" /\ r.downloads \in ConcDownloadLists)}

\* resolutions that overlap: a second one may start while the first awaits an answer
NextConc ==
    \/ \E c \in Calls, x \in Ids : StreamStart(c, x, NoPath)
    \/ \E c \in Calls, resp \in ConcDetailResponses : DetailResponse(c, resp)
    \/ \E c \in Calls, resp \in ConcPrimaryResponses : PrimaryResponse(c, resp)
    \/ \E c \in Calls, resp \in ConcSecondaryResponses : SecondaryResponse(c, resp)
    \/ \E c \in Calls : Return(c)
    \/ LifespanStartup
    \/ Tick

SpecConc == Init /\ [][NextConc]_vars

NextProxy ==
    \/ \E u \in UrlTokens, r \in RefererTokens, f \in Filenames, h \in InboundHeaders :
           ProxyStart(u, r, f, h)
    \/ SendRaises
    \/ \E s \in UpstreamStatuses, h \in UpstreamHeaderSets, n \in 0..MaxChunks :
           SendReturns(s, h, n)
    \/ BodyNext
    \/ UpstreamChunk
    \/ UpstreamEof
    \/ UpstreamError
    \/ CancelledWhileReading
    \/ ClosedAtYield
    \/ NeverStarted
    \/ ProxyDone
    \/ ProxyLifespanStartup

SpecProxy == Init /\ [][NextProxy]_vars

InitCodec ==
    /\ InitResolver
    /\ InitProxy
    /\ codec \in {[IdleCodec EXCEPT !.pc = "input", !.u = u, !.r = r] :
                     u \in StrsUpTo(MaxLen), r \in StrsUpTo(MaxRefLen)}

NextCodec == CodecEncode \/ CodecDecode

SpecCodec == InitCodec /\ [][NextCodec]_vars

----------------------------------------------------------------------------
(* What the claims speak of *)

\* frame c holds the result a get_stream_links_fast call is returning
StreamDone(c) == calls[c].pc = "done" /\ calls[c].op = "stream"

\* frame c is in get_stream_links_fast past the cache check
StreamMissed(c) ==
    /\ calls[c].op = "stream"
    /\ \/ calls[c].pc \in {"detail", "primary", "secondary"}
       \/ calls[c].pc = "done" /\ (calls[c].result.success => ~calls[c].result.cached)

\* this step is the start of a get_stream_links_fast(x) call in frame c
BeginsStream(c, x) ==
    /\ calls[c].pc = "idle"
    /\ calls'[c].pc # "idle"
    /\ calls'[c].op = "stream"
    /\ calls'[c].id = x

\* this step is the start of a get_cached_detail_path(x) call, made directly or by
\* get_stream_links_fast at line 108
BeginsPathLookup(c, x) ==
    /\ calls[c].pc = "idle"
    /\ calls'[c].id = x
    /\ \/ calls'[c].op = "path" /\ calls'[c].pc # "idle"
       \/ /\ calls'[c].op = "stream"
          /\ calls'[c].arg = NoPath
          /\ calls'[c].pc \in {"detail", "primary", "secondary"}

HasReq(f, kind) == \E i \in 1..Len(f.reqs) : f.reqs[i].kind = kind

HasValue(headers, name) == name \in DOMAIN headers /\ headers[name] # ""

QualitiesOf(qs) == [i \in 1..Len(qs) |-> qs[i].quality]

----------------------------------------------------------------------------
(* C1 *)

\* C1: when the last call for x returned success with a non-empty list and the
\* entry stored for x is younger than STREAM_CACHE_TTL (the window counts from the
\* entry's stored timestamp), a call for x returns at once that same list with
\* cached = TRUE and timing_ms = 0, having sent no request.
C1_Step ==
    \A c \in Calls, x \in Ids :
        ( /\ BeginsStream(c, x)
          /\ lastStream[x].kind = "nonempty"
          /\ x \in DOMAIN stream_links_cache
          /\ now - stream_links_cache[x].timestamp < STREAM_CACHE_TTL )
        => /\ calls'[c].pc = "done"
           /\ calls'[c].result = [success |-> TRUE, qualities |-> lastStream[x].qualities,
                                  cached |-> TRUE, timing_ms |-> 0]
           /\ calls'[c].reqs = <<>>

----------------------------------------------------------------------------
(* C2 *)

C2_Step ==
    \A c \in Calls, x \in Ids :
        (BeginsStream(c, x) /\ lastStream[x].kind = "empty" /\ lastStream[x].solo)
        => /\ calls'[c].pc \in {"detail", "primary", "secondary"}
           /\ calls'[c].reqs # <<>>

C2_MissFetches ==
    \A c \in Calls :
        (StreamDone(c) /\ StreamMissed(c))
        => (HasReq(calls[c], "primary") \/ HasReq(calls[c], "secondary"))

\* C2: when the last call for x returned an empty list (and no other resolution
\* for x overlapped it), a call for x is not answered from the cache: it sends a
\* request at once, and no call that missed the cache returns without having sent
\* a download request.
C2_EmptyNotCached == [](C2_MissFetches) /\ [][C2_Step]_vars

\* a call under way right after a call that returned an empty list
C2_Witness ==
    \E c \in Calls :
        /\ calls[c].op = "stream"
        /\ calls[c].pc \in {"primary", "secondary"}
        /\ calls[c].current_time = now
        /\ lastStream[calls[c].id].kind = "empty"
        /\ lastStream[calls[c].id].solo
        /\ calls[c].solo

----------------------------------------------------------------------------
(* C3 *)

FetchNow(c) == IF calls'[c].pc = "detail" THEN 1 ELSE 0

----------------------------------------------------------------------------
(* C4 *)

\* the secondary request is there exactly when there was no session or the
\* primary fetch raised
C4_Exactly(f) ==
    HasReq(f, "secondary") <=> (f.err = "No active session" \/ f.err = "primary fetch failed")

C4_NoSessionNoPrimary(f) ==
    /\ f.err = "No active session" => ~HasReq(f, "primary")
    /\ f.err = "primary fetch failed" => HasReq(f, "primary")
    /\ f.err = "" => HasReq(f, "primary")

\* it carries the primary request's Referer, a desktop user agent and no cookies
C4_SameReferer(f) ==
    \A i \in 1..Len(f.reqs) :
        f.reqs[i].kind = "secondary"
        => /\ f.reqs[i].Referer = RefererOf(f.detail_path)
           /\ f.reqs[i].UserAgent = "Windows"
           /\ ~f.reqs[i].cookies
           /\ \A j \in 1..Len(f.reqs) :
                  f.reqs[j].kind = "primary" => f.reqs[j].Referer = f.reqs[i].Referer

C4_FailedAfterSecondary(f) ==
    (f.pc = "done" /\ ~f.result.success) => (HasReq(f, "secondary") /\ f.proxy_err # "")

FetchErrors == {"No active session", "primary fetch failed"}

C4_FetchFailureAfterSecondary(f) ==
    (f.pc = "done" /\ ~f.result.success)
    => IF f.result.error \in FetchErrors
       THEN HasReq(f, "secondary") /\ f.proxy_err # ""
       ELSE f.proxy_err = "" /\ ParseError(f.downloads) = f.result.error

\* C4 as stated: the secondary fetch is attempted exactly when the primary failed
\* or there is no session, with the same Referer, and a failure is reported only
\* after the secondary attempt has failed too.
C4_Original ==
    \A c \in Calls :
        StreamMissed(c) /\ calls[c].pc # "detail"
        => /\ C4_Exactly(calls[c])
           /\ C4_NoSessionNoPrimary(calls[c])
           /\ C4_SameReferer(calls[c])
           /\ C4_FailedAfterSecondary(calls[c])

\* C4, amended: as stated, except that only a fetch failure is reported after the
\* secondary attempt has failed; a failure to parse the download list of a fetch
\* that succeeded is reported with no further attempt.
C4_Fallback ==
    \A c \in Calls :
        StreamMissed(c) /\ calls[c].pc # "detail"
        => /\ C4_Exactly(calls[c])
           /\ C4_NoSessionNoPrimary(calls[c])
           /\ C4_SameReferer(calls[c])
           /\ C4_FetchFailureAfterSecondary(calls[c])

\* both attempts were made and both failed
C4_Witness ==
    \E c \in Calls :
        /\ StreamDone(c)
        /\ ~calls[c].result.success
        /\ HasReq(calls[c], "primary")
        /\ HasReq(calls[c], "secondary")
        /\ calls[c].proxy_err # ""

----------------------------------------------------------------------------
(* C5 *)

Descending(qs) == \A i \in 1..(Len(qs) - 1) : qs[i].quality >= qs[i + 1].quality

WithQuality(qs, v) == LET Is(q) == q.quality = v IN SelectSeq(qs, Is)

\* C5: a returned list is in descending order of quality; a freshly resolved list
\* holds the backend's descriptors, those of equal quality in the backend's order;
\* qualities [480, 1080, 720] come back as [1080, 720, 480].
C5_SortedStable ==
    \A c \in Calls :
        (StreamDone(c) /\ calls[c].result.success)
        => LET f == calls[c]
               qs == f.result.qualities
               backend == [i \in 1..Len(f.downloads) |-> Quality(f.downloads[i], f.referer_url)]
           IN  /\ Descending(qs)
               /\ ~f.result.cached
                  => /\ Len(qs) = Len(backend)
                     /\ \A i \in 1..Len(backend) :
                            WithQuality(qs, backend[i].quality)
                                = WithQuality(backend, backend[i].quality)
                     /\ QualitiesOf(backend) = <<480, 1080, 720>>
                            => QualitiesOf(qs) = <<1080, 720, 480>>

\* a fresh list with two descriptors of the same quality
C5_Witness ==
    \E c \in Calls :
        /\ StreamDone(c)
        /\ calls[c].result.success
        /\ ~calls[c].result.cached
        /\ calls[c].downloads = DlTies

----------------------------------------------------------------------------
(* C6 *)

\* C6: decoding the two segments made from (u, r) gives back exactly u and r, and
\* no segment holds a '/', so the path splits where it was joined.
C6_RoundTrip ==
    codec.pc = "decoded"
    => /\ codec.out = <<Ok(codec.u), Ok(codec.r)>>
       /\ \A k \in 1..2 : \A i \in 1..Len(codec.token[k]) : codec.token[k][i] # Slash

\* a URL with '/', '?' and '&' has made the round trip
C6_Witness ==
    /\ codec.pc = "decoded"
    /\ codec.u = <<Slash, Question, Amp>>
    /\ codec.r = <<Slash>>

----------------------------------------------------------------------------
(* C7 *)

RangeForwarded(present(_, _)) ==
    /\ present(proxy.inbound, "Range")
       => /\ "Range" \in DOMAIN proxy.req.headers
          /\ proxy.req.headers["Range"] = proxy.inbound["Range"]
    /\ ~present(proxy.inbound, "Range") => "Range" \notin DOMAIN proxy.req.headers

ContentRangeForwarded(present(_, _)) ==
    ( /\ proxy.r.kind = "response"
      /\ proxy.r.status_code = 206
      /\ present(proxy.r.headers, "ContentRange") )
    => /\ proxy.response.status_code = 206
       /\ "ContentRange" \in DOMAIN proxy.response.headers
       /\ proxy.response.headers["ContentRange"] = proxy.r.headers["ContentRange"]

IsPresent(headers, name) == name \in DOMAIN headers

\* C7 as stated: an inbound Range header is forwarded with the same value, none is
\* sent when there is none inbound, and a 206 with a Content-Range is answered
\* with 206 and that Content-Range.
C7_Original ==
    proxy.req.kind = "GET" => RangeForwarded(IsPresent) /\ ContentRangeForwarded(IsPresent)

\* C7, amended: the same for header values that are not empty; an empty inbound
\* Range is not forwarded, and an empty Content-Range is not passed on.
C7_RangeForwarding ==
    proxy.req.kind = "GET" => RangeForwarded(HasValue) /\ ContentRangeForwarded(HasValue)

\* Range: bytes=100-199 was sent on and upstream's 206 has come back
C7_Witness ==
    /\ proxy.pc = "returned"
    /\ proxy.inbound = [Range |-> "bytes=100-199"]
    /\ proxy.r.status_code = 206
    /\ HasValue(proxy.r.headers, "ContentRange")
    /\ proxy.response.status_code = 206

----------------------------------------------------------------------------
(* C8 *)

\* C8: when a stream_video request is over, whichever way it ended, the upstream
\* response it opened is closed and so is the client it created for itself.
C8_AllClosed ==
    proxy.pc \in {"over", "raised"} => (~proxy.r_open /\ ~proxy.client_open)

----------------------------------------------------------------------------
(* C9 *)

\* C9: when the consumer went away after part of the body, iter_file has ended
\* with no exception leaving it and the upstream response is closed.
C9_SilentOnDisconnect ==
    (proxy.pc = "over" /\ proxy.ended = "disconnect" /\ proxy.delivered >= 1)
    => (proxy.escaped = "none" /\ ~proxy.r_open)

----------------------------------------------------------------------------
(* C10 *)

\* C10: no field of a descriptor in a returned payload is an upstream URL as the
\* backend gave it.
C10_NoRawUrl ==
    \A c \in Calls :
        (StreamDone(c) /\ calls[c].result.success)
        => \A i \in 1..Len(calls[c].result.qualities) :
               LET q == calls[c].result.qualities[i]
               IN  /\ ("direct_url" \in DOMAIN q => q.direct_url \notin UpstreamUrls)
                   /\ q.proxy_url[2] \notin UpstreamUrls
                   /\ q.proxy_url[3] \notin UpstreamUrls

----------------------------------------------------------------------------
(* C11 *)

\* C11: a get_stream_links_fast call ends with a result, a failed one with
\* success = FALSE, a reason and the elapsed time; and a stream_video call ends with
\* a response, never with an exception leaving it, whatever the token and whatever
\* upstream does.
C11_StructuredResult ==
    /\ \A c \in Calls :
           StreamDone(c)
           => \/ calls[c].result.success
              \/ /\ calls[c].result.error # ""
                 /\ "timing_ms" \in DOMAIN calls[c].result
    /\ proxy.pc # "raised"
    /\ proxy.pc = "returned" => proxy.response.kind = "streaming"

----------------------------------------------------------------------------
(* C12 *)

\* C12: an entry of detail_path_cache, once there, stays there with the value it
\* has: no step changes or removes it.
C12_EntriesEternal ==
    [][\A x \in DOMAIN detail_path_cache :
          /\ x \in DOMAIN detail_path_cache'
          /\ detail_path_cache'[x] = detail_path_cache[x]]_vars

----------------------------------------------------------------------------
(* C13 *)

\* a get_stream_links_fast call ends in this step with a failure or an empty list
EndsWithoutLinks(c) ==
    /\ calls[c].pc # "done"
    /\ calls'[c].pc = "done"
    /\ calls'[c].op = "stream"
    /\ calls'[c].result.success => calls'[c].result.qualities = <<>>

\* C13: every entry of stream_links_cache holds a non-empty list of qualities, and
\* the step in which a call ends with a failure or an empty list leaves the cache
\* as it was.
C13_NoEmptyEntry ==
    /\ [](\A x \in DOMAIN stream_links_cache : stream_links_cache[x].data # <<>>)
    /\ [][\A c \in Calls : EndsWithoutLinks(c) => stream_links_cache' = stream_links_cache]_vars

\* an empty or failed resolution has ended while the cache holds an older, expired entry
C13_Witness ==
    \E c \in Calls :
        /\ StreamDone(c)
        /\ calls[c].result.success => calls[c].result.qualities = <<>>
        /\ calls[c].id \in DOMAIN stream_links_cache

----------------------------------------------------------------------------
(* C14 *)

\* a get_cached_detail_path(x) lookup that sent a detail request ends in this step
\* with the answer 'unknown'
LookupEndsUnknown(c) ==
    /\ calls[c].pc = "detail"
    /\ calls'[c].pc # "detail"
    /\ IF calls[c].op = "path" THEN calls'[c].result.path = Unknown
       ELSE calls'[c].detail_path = Unknown

\* C14: a lookup that missed the cache and found no detailPath (the request raised,
\* the status was not 200, or the 200 answer has no detailPath) returns 'unknown'
\* and leaves detail_path_cache without an entry for x (no listing having stored one
\* in the meantime).
C14_FailureNotCached ==
    [][\A c \in Calls :
          (LookupEndsUnknown(c) /\ calls[c].id \notin DOMAIN detail_path_cache)
          => calls[c].id \notin DOMAIN detail_path_cache']_vars

----------------------------------------------------------------------------
(* C15 *)

\* C15: when the primary attempt failed (or there was no session) and the secondary
\* attempt failed too, the reason returned is the primary attempt's error, 'No
\* active session' when there was no session, and not the secondary's.
C15_OriginalErrorSurfaced ==
    \A c \in Calls :
        (StreamDone(c) /\ calls[c].proxy_err # "")
        => /\ ~calls[c].result.success
           /\ calls[c].result.error = calls[c].err
           /\ calls[c].result.error # calls[c].proxy_err
           /\ calls[c].result.error =
                  IF HasReq(calls[c], "primary") THEN "primary fetch failed"
                  ELSE "No active session"

\* the session's fetch raised and the fresh client got a status other than 200
C15_Witness ==
    \E c \in Calls :
        /\ StreamDone(c)
        /\ HasReq(calls[c], "primary")
        /\ calls[c].proxy_err = "Proxy attempt failed"
        /\ calls[c].result.error = "primary fetch failed"

----------------------------------------------------------------------------
(* C16 *)

\* the response carries header name exactly when upstream's response has it (in the
\* sense of present), and then with upstream's value
Carried(name, present(_, _)) ==
    /\ (name \in DOMAIN proxy.response.headers) <=> present(proxy.r.headers, name)
    /\ name \in DOMAIN proxy.response.headers
       => proxy.response.headers[name] = proxy.r.headers[name]

FixedHeaders ==
    /\ proxy.response.headers["ContentType"] = "video/mp4"
    /\ proxy.response.headers["AcceptRanges"] = "bytes"
    /\ proxy.response.headers["CacheControl"] = "no-cache"
    /\ DOMAIN proxy.response.headers
           \subseteq {"ContentType", "AcceptRanges", "CacheControl", "ContentLength", "ContentRange"}

\* C16 as stated: the response has Content-Type video/mp4, Accept-Ranges bytes and
\* Cache-Control no-cache, Content-Length and Content-Range exactly when upstream
\* sent them, with upstream's values, and upstream's status code.
C16_Original ==
    proxy.response.kind = "streaming"
    => /\ FixedHeaders
       /\ Carried("ContentLength", IsPresent)
       /\ Carried("ContentRange", IsPresent)
       /\ proxy.response.status_code = proxy.r.status_code

\* C16, amended: the same, with Content-Length and Content-Range carried exactly
\* when upstream sent them with a value that is not empty.
C16_ResponseHeaders ==
    proxy.response.kind = "streaming"
    => /\ FixedHeaders
       /\ Carried("ContentLength", HasValue)
       /\ Carried("ContentRange", HasValue)
       /\ proxy.response.status_code = proxy.r.status_code

\* upstream answered 403 with another content type and a length
C16_Witness ==
    /\ proxy.pc = "returned"
    /\ proxy.r.status_code = 403
    /\ IsPresent(proxy.r.headers, "ContentType")
    /\ proxy.response.headers["ContentLength"] = "100"
    /\ proxy.response.status_code = 403

----------------------------------------------------------------------------
(* C17 *)

\* frame f has sent no detail request and every request it has sent carries the
\* Referer made of the supplied path
UsesSuppliedPath(f) ==
    /\ ~HasReq(f, "detail")
    /\ f.reqs # <<>>
    /\ \A i \in 1..Len(f.reqs) : f.reqs[i].Referer = Host \o MoviesPrefix \o f.arg

\* C17: a get_stream_links_fast(x, knownPath) call with a path supplied that misses
\* the stream cache stores knownPath as detail_path_cache[x] at once, sends no
\* detail request and builds the Referer of every request it sends from knownPath;
\* the steps that end it, with success or failure, leave detail_path_cache alone.
C17_SuppliedPath ==
    /\ [](\A c \in Calls :
              (StreamMissed(c) /\ calls[c].arg # NoPath) => UsesSuppliedPath(calls[c]))
    /\ [][\A c \in Calls, x \in Ids :
              /\ (BeginsStream(c, x) /\ calls'[c].arg # NoPath /\ calls'[c].pc # "done")
                 => /\ x \in DOMAIN detail_path_cache'
                    /\ detail_path_cache'[x] = calls'[c].arg
              /\ (StreamMissed(c) /\ calls[c].arg # NoPath /\ calls'[c] # calls[c])
                 => detail_path_cache' = detail_path_cache]_vars

\* a call with path b supplied has failed after both attempts, and the cache that
\* held path a before it started now holds b
C17_Witness ==
    \E c \in Calls :
        /\ StreamDone(c)
        /\ ~calls[c].result.success
        /\ calls[c].arg = PathB
        /\ lastPath[calls[c].id].kind = "ok"
        /\ detail_path_cache[calls[c].id] = PathB

----------------------------------------------------------------------------
(* C18 *)

\* this step writes the entry of x in detail_path_cache
WritesPath(x) ==
    /\ x \in DOMAIN detail_path_cache'
    /\ x \in DOMAIN detail_path_cache => detail_path_cache'[x] # detail_path_cache[x]

\* this step ends a get_cached_detail_path(x) lookup that had sent its request
LookupEnds(c, x) ==
    /\ calls[c].pc = "detail"
    /\ calls[c].id = x
    /\ calls'[c].pc # "detail"

\* C18 as stated: a step that writes the entry of x ends a get_cached_detail_path(x)
\* lookup that succeeded.
C18_Original ==
    [][\A x \in Ids :
          WritesPath(x)
          => \E c \in Calls : LookupEnds(c, x) /\ lastPath'[x] = PathRecord("ok", 1)]_vars

\* C18, amended: a step that writes the entry of x is the end of a
\* get_cached_detail_path(x) lookup answered with status 200, or the start of a
\* get_stream_links_fast(x, knownPath) call that stores the supplied path, or a
\* listing (home, search, recommendations) that names x; no step removes an entry.
C18_Writers ==
    [][/\ \A x \in Ids :
              WritesPath(x)
              => \/ \E c \in Calls : LookupEnds(c, x) /\ lastPath'[x] = PathRecord("ok", 1)
                 \/ \E c \in Calls : /\ BeginsStream(c, x)
                                     /\ calls'[c].arg # NoPath
                                     /\ detail_path_cache'[x] = calls'[c].arg
                 \/ calls' = calls /\ detail_path_cache'[x] \in Paths
       /\ DOMAIN detail_path_cache \subseteq DOMAIN detail_path_cache']_vars

\* each kind of writer has written: the lookup stored path a, a call with path b
\* supplied replaced it, and the failed lookup of before stored nothing
C18_Witness ==
    /\ lastPath["x1"] = PathRecord("ok", 1)
    /\ "x1" \in DOMAIN detail_path_cache
    /\ detail_path_cache["x1"] = PathB
    /\ \E c \in Calls : calls[c].op = "stream" /\ calls[c].arg = PathB /\ calls[c].pc = "primary"

----------------------------------------------------------------------------
(* C19 *)

\* C19: the step that writes an entry of stream_links_cache stores the time at which
\* it writes, so that the entry is valid for a whole STREAM_CACHE_TTL from then on.
C19_TimestampAtWrite ==
    [][\A x \in Ids :
          ( /\ x \in DOMAIN stream_links_cache'
            /\ x \in DOMAIN stream_links_cache => stream_links_cache'[x] # stream_links_cache[x] )
          => /\ stream_links_cache'[x].timestamp = now
             /\ (now + STREAM_CACHE_TTL - 1) - stream_links_cache'[x].timestamp
                    < STREAM_CACHE_TTL]_vars

----------------------------------------------------------------------------
(* C20 *)

\* the request that frame f sent last
LastReq(f) == f.reqs[Len(f.reqs)]

\* C20: when a fetch succeeded and its download list has an item without 'url' or
\* 'resolution' or with a size that is not a number, the call ends in the same step
\* with a failure that names the defect, and no request is sent after the fetch
\* that delivered the list: no fallback after a primary fetch, no retry at all.
C20_ContractViolationSurfaced ==
    /\ [](\A c \in Calls :
              (StreamDone(c) /\ ParseError(calls[c].downloads) # "")
              => /\ ~calls[c].result.success
                 /\ calls[c].result.error = ParseError(calls[c].downloads)
                 /\ "timing_ms" \in DOMAIN calls[c].result
                 /\ calls[c].proxy_err = ""
                 /\ calls[c].err = "" => ~HasReq(calls[c], "secondary"))
    /\ [][\A c \in Calls :
              ( /\ calls[c].pc \in {"primary", "secondary"}
                /\ calls'[c].pc # calls[c].pc
                /\ ParseError(calls'[c].downloads) # "" )
              => /\ calls'[c].pc = "done"
                 /\ calls'[c].reqs = calls[c].reqs
                 /\ LastReq(calls[c]).kind = calls[c].pc]_vars

\* the session's fetch delivered an item without 'url' and the call has failed
C20_Witness ==
    \E c \in Calls :
        /\ StreamDone(c)
        /\ calls[c].downloads = DlNoUrl
        /\ calls[c].err = ""
        /\ ~calls[c].result.success

----------------------------------------------------------------------------
(* C21 *)

\* the age, at the start of the call in frame c, of the entry stored for its id
AgeAtStart(c) == calls[c].current_time - stream_links_cache[calls[c].id].timestamp

\* C21: a call is answered from the cache only when the entry's age, now - timestamp,
\* is less than STREAM_CACHE_TTL; a call that finds an entry whose age is the TTL or
\* more is not answered from it and sends a request.
C21_StrictTtl ==
    /\ [](\A c \in Calls :
              (StreamDone(c) /\ calls[c].result.success /\ calls[c].result.cached)
              => /\ calls[c].id \in DOMAIN stream_links_cache
                 /\ now - stream_links_cache[calls[c].id].timestamp < STREAM_CACHE_TTL
                 /\ now - stream_links_cache[calls[c].id].timestamp < 1800)
    /\ [][\A c \in Calls, x \in Ids :
              ( /\ BeginsStream(c, x)
                /\ x \in DOMAIN stream_links_cache
                /\ now - stream_links_cache[x].timestamp >= STREAM_CACHE_TTL )
              => /\ calls'[c].pc \in {"detail", "primary", "secondary"}
                 /\ calls'[c].reqs # <<>>]_vars

\* a call under way that found an entry exactly STREAM_CACHE_TTL old
C21_Witness ==
    \E c \in Calls :
        /\ calls[c].op = "stream"
        /\ calls[c].pc \in {"detail", "primary", "secondary"}
        /\ calls[c].id \in DOMAIN stream_links_cache
        /\ AgeAtStart(c) = STREAM_CACHE_TTL

----------------------------------------------------------------------------
(* C22 *)

\* this step changes the entry of x in stream_links_cache
WritesLinks(x) ==
    /\ x \in DOMAIN stream_links_cache'
    /\ x \in DOMAIN stream_links_cache => stream_links_cache'[x] # stream_links_cache[x]

\* this step ends the get_stream_links_fast call of frame c
StreamEnds(c) ==
    /\ calls[c].pc # "done"
    /\ calls'[c].pc = "done"
    /\ calls'[c].op = "stream"

\* C22: with calls overlapping in any order, every change of an entry of
\* stream_links_cache is made in one step by one call that ends in it, which puts its
\* own list and its own timestamp there together in place of the whole entry; and a
\* call answered from the cache returns the list of the entry as it is.
C22_WholeEntries ==
    /\ [](\A x \in DOMAIN stream_links_cache :
              DOMAIN stream_links_cache[x] = {"data", "timestamp"})
    /\ [](\A c \in Calls :
              (StreamDone(c) /\ calls[c].result.success /\ calls[c].result.cached)
              => calls[c].result.qualities = stream_links_cache[calls[c].id].data)
    /\ [][\A x \in Ids :
              WritesLinks(x)
              => \E c \in Calls :
                     /\ StreamEnds(c)
                     /\ calls'[c].id = x
                     /\ stream_links_cache'[x] =
                            [data |-> calls'[c].result.qualities,
                             timestamp |-> calls'[c].current_time]]_vars

\* a call that another call overlapped has ended after the clock moved on, and the
\* entry in the cache is the one it wrote: its list with its timestamp
C22_Witness ==
    \E c \in Calls :
        /\ StreamDone(c)
        /\ calls[c].result.success
        /\ ~calls[c].result.cached
        /\ ~calls[c].solo
        /\ lastStream[calls[c].id].kind = "nonempty"
        /\ calls[c].current_time < now
        /\ stream_links_cache[calls[c].id] =
               [data |-> calls[c].result.qualities, timestamp |-> calls[c].current_time]
        /\ \A d \in Calls : calls[d].pc \in {"idle", "done"}

----------------------------------------------------------------------------
(* C23 *)

\* C23 as stated: no step takes a key out of stream_links_cache or
\* detail_path_cache, and a call that missed on a stale entry puts its own entry in
\* the place of the stale one.
C23_Original ==
    /\ [][/\ DOMAIN stream_links_cache \subseteq DOMAIN stream_links_cache'
          /\ DOMAIN detail_path_cache \subseteq DOMAIN detail_path_cache']_vars
    /\ [][\A c \in Calls :
              ( /\ StreamEnds(c)
                /\ calls[c].id \in DOMAIN stream_links_cache
                /\ calls'[c].result.success => ~calls'[c].result.cached )
              => stream_links_cache'[calls[c].id].timestamp = calls'[c].current_time]_vars

\* C23, amended: no step takes a key out of either cache; a call that missed on a
\* stale entry and ends with a non-empty list puts its own entry in the place of
\* the stale one, and one that ends with a failure or an empty list leaves the
\* stale entry where it is.
C23_NoDeletion ==
    /\ [][/\ DOMAIN stream_links_cache \subseteq DOMAIN stream_links_cache'
          /\ DOMAIN detail_path_cache \subseteq DOMAIN detail_path_cache']_vars
    /\ [][\A c \in Calls :
              (StreamEnds(c) /\ calls[c].id \in DOMAIN stream_links_cache)
              => IF /\ calls'[c].result.success
                    /\ ~calls'[c].result.cached
                    /\ calls'[c].result.qualities # <<>>
                 THEN stream_links_cache'[calls[c].id] =
                          [data |-> calls'[c].result.qualities,
                           timestamp |-> calls'[c].current_time]
                 ELSE stream_links_cache'[calls[c].id] = stream_links_cache[calls[c].id]]_vars

\* a call that missed on a stale entry has ended with an empty list, and the stale
\* entry is still there
C23_Witness ==
    \E c \in Calls :
        /\ StreamDone(c)
        /\ calls[c].result.success
        /\ calls[c].result.qualities = <<>>
        /\ calls[c].id \in DOMAIN stream_links_cache
        /\ AgeAtStart(c) >= STREAM_CACHE_TTL

----------------------------------------------------------------------------
(* C24 *)

\* this step is a get_stream_links_fast(x) call answered from the cache
AnsweredFromCache(c, x) ==
    /\ BeginsStream(c, x)
    /\ calls'[c].pc = "done"
    /\ calls'[c].result.success
    /\ calls'[c].result.cached

\* C24: a call answered from the stream cache sends no request and leaves
\* stream_links_cache and detail_path_cache as they were, also when a path is
\* supplied that differs from the one detail_path_cache holds.
C24_HitChangesNothing ==
    [][\A c \in Calls, x \in Ids :
          AnsweredFromCache(c, x)
          => /\ calls'[c].reqs = <<>>
             /\ stream_links_cache' = stream_links_cache
             /\ detail_path_cache' = detail_path_cache]_vars

\* a call with path b supplied was answered from the cache while
\* detail_path_cache holds path a
C24_Witness ==
    \E c \in Calls :
        /\ StreamDone(c)
        /\ calls[c].result.success
        /\ calls[c].result.cached
        /\ calls[c].arg = PathB
        /\ calls[c].id \in DOMAIN detail_path_cache
        /\ detail_path_cache[calls[c].id] = PathA

----------------------------------------------------------------------------
(* C25 *)

\* C25: a call that returns success = FALSE has left stream_links_cache as it was:
\* no step but the end of a call that returns a freshly resolved list changes the
\* cache, and the step in which a call ends with a failure leaves every entry, also
\* a stale one of its own id, as it is.
C25_FailureLeavesCache ==
    /\ [][stream_links_cache' # stream_links_cache
          => \E c \in Calls : /\ StreamEnds(c)
                              /\ calls'[c].result.success
                              /\ ~calls'[c].result.cached]_vars
    /\ [][\A c \in Calls :
              (StreamEnds(c) /\ ~calls'[c].result.success)
              => stream_links_cache' = stream_links_cache]_vars

\* a call has returned a failure and the stale entry of its id is still in the cache
C25_Witness ==
    \E c \in Calls :
        /\ StreamDone(c)
        /\ ~calls[c].result.success
        /\ calls[c].id \in DOMAIN stream_links_cache
        /\ stream_links_cache[calls[c].id].data # <<>>
        /\ stream_links_cache[calls[c].id].timestamp < calls[c].current_time

----------------------------------------------------------------------------
(* C26 *)

\* C26: with calls for the same id overlapping, the timestamp stored for the id
\* never goes down: no step replaces an entry by one with an older timestamp.
C26_TimestampMonotone ==
    [][\A x \in DOMAIN stream_links_cache :
          stream_links_cache'[x].timestamp >= stream_links_cache[x].timestamp]_vars

----------------------------------------------------------------------------
(* C27 *)

\* C27: the request stream_video sends upstream is a GET of the decoded first
\* segment with the library's headers and the inbound Range, if it has a value; it
\* is the same whatever the referer segment and the filename segment are, also for
\* a referer segment that cannot be decoded: the Referer sent is the library's.
C27_RequestFromUrlAndRange ==
    proxy.req.kind = "GET"
    => /\ proxy.req.url = b64_decode(proxy.b64_url).val
       /\ DOMAIN proxy.req.headers \subseteq DOMAIN DOWNLOAD_REQUEST_HEADERS \cup {"Range"}
       /\ \A h \in DOMAIN DOWNLOAD_REQUEST_HEADERS :
              proxy.req.headers[h] = DOWNLOAD_REQUEST_HEADERS[h]
       /\ "Range" \in DOMAIN proxy.req.headers
              => proxy.req.headers["Range"] = proxy.inbound["Range"]
       /\ \A r \in RefererTokens, f \in Filenames :
              UpstreamRequestOf(proxy.b64_url, r, f, proxy.inbound) = proxy.req

\* a request has gone upstream for a path whose referer segment is not base64
C27_Witness ==
    /\ proxy.pc = "returned"
    /\ proxy.b64_referer = BadBase64
    /\ proxy.filename = "other.mp4"
    /\ proxy.req.url = UrlB

====
